---- MODULE Spec2Model ----
(***************************************************************************)
(* MediaRepositoryMethods (mautrix/client/api/modules/media_repository.py) *)
(* as a state machine.  Every coroutine is cut at its await points: the    *)
(* part up to the await is one action, the part after it is another whose  *)
(* input is what the transport delivered at that await (a body, a stream,  *)
(* an error or a cancellation).                                            *)
(***************************************************************************)
EXTENDS Integers, FiniteSets, Sequences, TLC

VARIABLES
    magic,        \* module global `magic`: TRUE iff `import magic` succeeded
    calls,        \* task -> the media-repository call the task is executing
    openStreams   \* response streams of self.api.session currently open

vars == <<magic, calls, openStreams>>

-----------------------------------------------------------------------------
(* Python values.  A value carries its type, so that `is not None` and      *)
(* truthiness are different tests.                                          *)

None == [tag |-> "None"]
PyInt(n) == [tag |-> "int", v |-> n]
PyStr(s) == [tag |-> "str", v |-> s]
PyBool(b) == [tag |-> "bool", v |-> b]
PyList(l) == [tag |-> "list", v |-> l]
PyDict(d) == [tag |-> "dict", v |-> d]

\* An argument the call site leaves out (not a Python value).
Omitted == [tag |-> "omitted"]

\* bool(x)
Truthy(x) ==
    CASE x.tag = "None" -> FALSE
      [] x.tag = "int"  -> x.v # 0
      [] x.tag = "str"  -> x.v # ""
      [] x.tag = "bool" -> x.v

\* The value a parameter is bound to: the passed one, or the signature's default.
Arg(passed, default) == IF passed = Omitted THEN default ELSE passed

\* {} and d[k] = v on a dict
EmptyDict == [k \in {} |-> None]
DictSet(d, k, v) == [x \in DOMAIN d \cup {k} |-> IF x = k THEN v ELSE d[x]]

-----------------------------------------------------------------------------
(* What the transport delivers at an await, and how a call ends.            *)

Ok(body) == [kind |-> "ok", body |-> body]
Err(e) == [kind |-> "error", exc |-> e]

Return(v) == [kind |-> "return", value |-> v]
Raise(e) == [kind |-> "raise", exc |-> e]

NoRequest == [kind |-> "none"]
NoResponse == [kind |-> "none"]
NoResult == [kind |-> "none"]

Idle ==
    [op |-> "none", args |-> EmptyDict, pc |-> "idle", request |-> NoRequest,
     nreq |-> 0, response |-> NoResponse, result |-> NoResult, stream |-> "none"]

\* A call may start when the task is not inside another one.
CanCall(t) == calls[t].pc \in {"idle", "done"}

-----------------------------------------------------------------------------
(* upload_media                                                             *)

\* magic.from_buffer(data, mime=True): the content type libmagic finds in
\* the payload.
magic_from_buffer(data) ==
    CASE data = "hello"   -> "text/plain"
      [] data = "\\x89PNG" -> "image/png"
      [] OTHER            -> "application/octet-stream"

upload_media_mime_type_always_sniff(data, mime_type) ==
    IF magic THEN PyStr(magic_from_buffer(data)) ELSE mime_type

\* if magic: mime_type = mime_type or magic.from_buffer(data, mime=True)
upload_media_mime_type(data, mime_type) ==
    IF magic
    THEN IF Truthy(mime_type) THEN mime_type ELSE PyStr(magic_from_buffer(data))
    ELSE mime_type

\* self.api.request("POST", "/upload", content=data,
\*                  headers={"Content-Type": mime_type}, api_path=APIPath.MEDIA)
upload_media_request(data, mime_type) ==
    [method |-> "POST", path |-> "/upload", content |-> data,
     headers |-> DictSet(EmptyDict, "Content-Type", upload_media_mime_type(data, mime_type)),
     api_path |-> "MEDIA"]

\* resp = await ...  (an error of the await leaves the coroutine as it is);
\* try: return resp["content_uri"]
\* except KeyError: raise MatrixResponseError(...)
\* resp is the decoded JSON body.  Subscripting a dict with a key it lacks
\* raises KeyError; subscripting a list, a str, an int or None with a str
\* raises TypeError, which the except clause does not catch.
upload_media_result(resp) ==
    IF resp.kind = "error" THEN Raise(resp.exc)
    ELSE IF resp.body.tag = "dict"
         THEN IF "content_uri" \in DOMAIN resp.body.v
              THEN Return(resp.body.v["content_uri"])
              ELSE Raise("MatrixResponseError")
         ELSE Raise("TypeError")

\* upload_media up to `await self.api.request(...)`; mime_type defaults to None.
upload_media_call(t, data, mime_type) ==
    /\ CanCall(t)
    /\ calls' = [calls EXCEPT ![t] =
         [op |-> "upload_media",
          args |-> [data |-> data, mime_type |-> mime_type],
          pc |-> "await_request",
          request |-> upload_media_request(data, Arg(mime_type, None)),
          nreq |-> 1, response |-> NoResponse, result |-> NoResult,
          stream |-> "none"]]
    /\ UNCHANGED <<magic, openStreams>>

\* upload_media from the await on: the transport delivered resp.
upload_media_resume(t, resp) ==
    /\ calls[t].op = "upload_media"
    /\ calls[t].pc = "await_request"
    /\ calls' = [calls EXCEPT ![t].response = resp,
                              ![t].result = upload_media_result(resp),
                              ![t].pc = "done"]
    /\ UNCHANGED <<magic, openStreams>>

-----------------------------------------------------------------------------
(* download_media and download_thumbnail                                    *)

\* self.api.get_download_url(url, download_type=...): the HTTP URL of the
\* media an MXC URI names, under the download or the thumbnail endpoint.
get_download_url(url, download_type) ==
    [endpoint |-> download_type, mxc |-> url]

\* self.api.session.get(url)
download_media_request(url) ==
    [method |-> "GET", url |-> get_download_url(url, "download")]

download_thumbnail_query_params_truthy_size(width, height, resize_method, allow_remote) ==
    LET q0 == EmptyDict
        q1 == IF Truthy(width) THEN DictSet(q0, "width", width) ELSE q0
        q2 == IF Truthy(height) THEN DictSet(q1, "height", height) ELSE q1
        q3 == IF resize_method # None
              THEN DictSet(q2, "resize_method", resize_method) ELSE q2
        q4 == IF allow_remote # None
              THEN DictSet(q3, "allow_remote", allow_remote) ELSE q3
    IN  q4

download_thumbnail_query_params_truthy_flag(width, height, resize_method, allow_remote) ==
    LET q0 == EmptyDict
        q1 == IF width # None THEN DictSet(q0, "width", width) ELSE q0
        q2 == IF height # None THEN DictSet(q1, "height", height) ELSE q1
        q3 == IF resize_method # None
              THEN DictSet(q2, "resize_method", resize_method) ELSE q2
        q4 == IF Truthy(allow_remote)
              THEN DictSet(q3, "allow_remote", allow_remote) ELSE q3
    IN  q4

\* query_params = {}; one `if x is not None: query_params[...] = x` per parameter
download_thumbnail_query_params(width, height, resize_method, allow_remote) ==
    LET q0 == EmptyDict
        q1 == IF width # None THEN DictSet(q0, "width", width) ELSE q0
        q2 == IF height # None THEN DictSet(q1, "height", height) ELSE q1
        q3 == IF resize_method # None
              THEN DictSet(q2, "resize_method", resize_method) ELSE q2
        q4 == IF allow_remote # None
              THEN DictSet(q3, "allow_remote", allow_remote) ELSE q3
    IN  q4

\* self.api.session.get(url, params=query_params)
download_thumbnail_request(url, width, height, resize_method, allow_remote) ==
    [method |-> "GET", url |-> get_download_url(url, "thumbnail"),
     params |-> download_thumbnail_query_params(width, height, resize_method,
                                                allow_remote)]

stream_after_read_no_scope(read) ==
    IF read.kind = "ok" THEN "released" ELSE "open"

\* Leaving `async with ... as response:` releases the response, whether the
\* block is left by `return` or by an exception (a cancellation included).
stream_after_read(read) == "released"

\* return await response.read()
download_result(read) ==
    IF read.kind = "error" THEN Raise(read.exc) ELSE Return(read.body)

\* A download coroutine entering `async with`: the request is answered with a
\* response whose stream is open, or the request fails and nothing is open.
DownloadEnter(t, got) ==
    /\ calls[t].pc = "await_response"
    /\ IF got.kind = "error"
       THEN /\ calls' = [calls EXCEPT ![t].response = got,
                                      ![t].result = Raise(got.exc),
                                      ![t].pc = "done"]
            /\ UNCHANGED openStreams
       ELSE /\ calls' = [calls EXCEPT ![t].stream = "open",
                                      ![t].pc = "await_read"]
            /\ openStreams' = openStreams + 1
    /\ UNCHANGED magic

\* A download coroutine from `await response.read()` on, through the exit of
\* the `async with` block.
DownloadRead(t, read) ==
    /\ calls[t].pc = "await_read"
    /\ calls' = [calls EXCEPT ![t].response = read,
                              ![t].result = download_result(read),
                              ![t].stream = stream_after_read(read),
                              ![t].pc = "done"]
    /\ openStreams' = IF stream_after_read(read) = "released"
                      THEN openStreams - 1 ELSE openStreams
    /\ UNCHANGED magic

\* download_media up to the request of `async with self.api.session.get(url)`.
download_media_call(t, url) ==
    /\ CanCall(t)
    /\ calls' = [calls EXCEPT ![t] =
         [op |-> "download_media", args |-> [url |-> url],
          pc |-> "await_response", request |-> download_media_request(url),
          nreq |-> 1, response |-> NoResponse, result |-> NoResult,
          stream |-> "none"]]
    /\ UNCHANGED <<magic, openStreams>>

download_media_enter(t, got) ==
    /\ calls[t].op = "download_media"
    /\ DownloadEnter(t, got)

download_media_read(t, read) ==
    /\ calls[t].op = "download_media"
    /\ DownloadRead(t, read)

\* download_thumbnail up to the request of `async with self.api.session.get(...)`;
\* width, height and resize_method default to None, allow_remote to True.
download_thumbnail_call(t, url, width, height, resize_method, allow_remote) ==
    /\ CanCall(t)
    /\ calls' = [calls EXCEPT ![t] =
         [op |-> "download_thumbnail",
          args |-> [url |-> url, width |-> width, height |-> height,
                    resize_method |-> resize_method, allow_remote |-> allow_remote],
          pc |-> "await_response",
          request |-> download_thumbnail_request(url, Arg(width, None),
                          Arg(height, None), Arg(resize_method, None),
                          Arg(allow_remote, PyBool(TRUE))),
          nreq |-> 1, response |-> NoResponse, result |-> NoResult,
          stream |-> "none"]]
    /\ UNCHANGED <<magic, openStreams>>

download_thumbnail_enter(t, got) ==
    /\ calls[t].op = "download_thumbnail"
    /\ DownloadEnter(t, got)

download_thumbnail_read(t, read) ==
    /\ calls[t].op = "download_thumbnail"
    /\ DownloadRead(t, read)

-----------------------------------------------------------------------------
(* get_url_preview and get_media_repo_config                                *)

\* The outcome of a deserialize() call: the value built, or SerializerError.
Built(v) == [ok |-> TRUE, value |-> v]
SerializerError == [ok |-> FALSE]

\* dict.get(k), as the deserializer reads an optional field
Field(content, k) == IF k \in DOMAIN content THEN content[k] ELSE None

\* MXOpenGraph.deserialize(content): every field is optional; a field of the
\* wrong type is a shape mismatch.
MXOpenGraph_deserialize(content) ==
    IF Field(content, "og:title").tag \in {"None", "str"}
    THEN Built([title |-> Field(content, "og:title")])
    ELSE SerializerError

\* MediaRepoConfig.deserialize(content): every field is optional; a field of
\* the wrong type is a shape mismatch.
MediaRepoConfig_deserialize(content) ==
    IF Field(content, "m.upload.size").tag \in {"None", "int"}
    THEN Built([upload_size |-> Field(content, "m.upload.size")])
    ELSE SerializerError

\* query_params as a dict shared by the calls in flight instead of a local
get_url_preview_query_params_shared(url, timestamp) ==
    LET inflight == {s \in DOMAIN calls : /\ calls[s].op = "get_url_preview"
                                          /\ calls[s].pc = "await_request"
                                          /\ "ts" \in DOMAIN calls[s].request.query_params}
        q0 == IF inflight = {}
              THEN EmptyDict
              ELSE DictSet(EmptyDict, "ts",
                           calls[CHOOSE s \in inflight : TRUE].request.query_params["ts"])
        q1 == DictSet(q0, "url", url)
    IN  IF timestamp # None THEN DictSet(q1, "ts", timestamp) ELSE q1

get_url_preview_query_params_truthy(url, timestamp) ==
    LET q0 == DictSet(EmptyDict, "url", url)
    IN  IF Truthy(timestamp) THEN DictSet(q0, "ts", timestamp) ELSE q0

\* query_params = {"url": url}
\* if timestamp is not None: query_params["ts"] = timestamp
get_url_preview_query_params(url, timestamp) ==
    LET q0 == DictSet(EmptyDict, "url", url)
    IN  IF timestamp # None THEN DictSet(q0, "ts", timestamp) ELSE q0

\* self.api.request(Method.GET, "/preview_url", query_params=query_params,
\*                  api_path=APIPath.MEDIA)
get_url_preview_request(url, timestamp) ==
    [method |-> "GET", path |-> "/preview_url",
     query_params |-> get_url_preview_query_params(url, timestamp),
     api_path |-> "MEDIA"]

get_url_preview_result_no_except(content) ==
    IF content.kind = "error" THEN Raise(content.exc)
    ELSE LET d == MXOpenGraph_deserialize(content.body)
         IN  IF d.ok THEN Return(d.value) ELSE Raise("SerializerError")

get_url_preview_result_broad_except(content) ==
    IF content.kind = "error" THEN Raise("MatrixResponseError")
    ELSE LET d == MXOpenGraph_deserialize(content.body)
         IN  IF d.ok THEN Return(d.value) ELSE Raise("MatrixResponseError")

\* content = await ...  (an error of the await leaves the coroutine as it is);
\* try: return MXOpenGraph.deserialize(content)
\* except SerializerError: raise MatrixResponseError(...)
get_url_preview_result(content) ==
    IF content.kind = "error" THEN Raise(content.exc)
    ELSE LET d == MXOpenGraph_deserialize(content.body)
         IN  IF d.ok THEN Return(d.value) ELSE Raise("MatrixResponseError")

\* get_url_preview up to `await self.api.request(...)`; timestamp defaults to None.
get_url_preview_call(t, url, timestamp) ==
    /\ CanCall(t)
    /\ calls' = [calls EXCEPT ![t] =
         [op |-> "get_url_preview",
          args |-> [url |-> url, timestamp |-> timestamp],
          pc |-> "await_request",
          request |-> get_url_preview_request(url, Arg(timestamp, None)),
          nreq |-> 1, response |-> NoResponse, result |-> NoResult,
          stream |-> "none"]]
    /\ UNCHANGED <<magic, openStreams>>

\* get_url_preview from the await on: the transport delivered content.
get_url_preview_resume(t, content) ==
    /\ calls[t].op = "get_url_preview"
    /\ calls[t].pc = "await_request"
    /\ calls' = [calls EXCEPT ![t].response = content,
                              ![t].result = get_url_preview_result(content),
                              ![t].pc = "done"]
    /\ UNCHANGED <<magic, openStreams>>

\* self.api.request(Method.GET, "/config", api_path=APIPath.MEDIA)
get_media_repo_config_request ==
    [method |-> "GET", path |-> "/config", api_path |-> "MEDIA"]

get_media_repo_config_result_required(content) ==
    IF content.kind = "error" THEN Raise(content.exc)
    ELSE LET d == MediaRepoConfig_deserialize(content.body)
         IN  IF d.ok /\ d.value.upload_size # None
             THEN Return(d.value) ELSE Raise("MatrixResponseError")

\* content = await ...  (an error of the await leaves the coroutine as it is);
\* try: return MediaRepoConfig.deserialize(content)
\* except SerializerError as e: raise MatrixResponseError(...) from e
get_media_repo_config_result(content) ==
    IF content.kind = "error" THEN Raise(content.exc)
    ELSE LET d == MediaRepoConfig_deserialize(content.body)
         IN  IF d.ok THEN Return(d.value) ELSE Raise("MatrixResponseError")

\* get_media_repo_config up to `await self.api.request(...)`.
get_media_repo_config_call(t) ==
    /\ CanCall(t)
    /\ calls' = [calls EXCEPT ![t] =
         [op |-> "get_media_repo_config", args |-> EmptyDict,
          pc |-> "await_request", request |-> get_media_repo_config_request,
          nreq |-> 1, response |-> NoResponse, result |-> NoResult,
          stream |-> "none"]]
    /\ UNCHANGED <<magic, openStreams>>

\* get_media_repo_config from the await on: the transport delivered content.
get_media_repo_config_resume(t, content) ==
    /\ calls[t].op = "get_media_repo_config"
    /\ calls[t].pc = "await_request"
    /\ calls' = [calls EXCEPT ![t].response = content,
                              ![t].result = get_media_repo_config_result(content),
                              ![t].pc = "done"]
    /\ UNCHANGED <<magic, openStreams>>

-----------------------------------------------------------------------------
(* The callers and the transport.                                           *)

\* Tasks that may be inside a call at the same time.
MaxTasks == 2

\* What a failed await raises: the homeserver answered with an error status,
\* the connection failed, or the calling task was cancelled.
TransportErrors == {"MatrixRequestError", "ClientConnectionError", "CancelledError"}

\* Arguments and transport answers of a single caller.
Wide ==
    [datas |-> {"hello", "\\x89PNG"},
     mime_types |-> {Omitted, None, PyStr(""), PyStr("text/plain"), PyStr("image/png")},
     urls |-> {"mxc://example.org/abc123"},
     widths |-> {Omitted, None, PyInt(0), PyInt(64)},
     heights |-> {Omitted, None, PyInt(64)},
     resize_methods |-> {Omitted, None, PyStr("crop"), PyStr("scale")},
     allow_remotes |-> {Omitted, None, PyBool(TRUE), PyBool(FALSE)},
     preview_urls |-> {"https://example.org/"},
     timestamps |-> {Omitted, None, PyInt(0), PyInt(1500000000)},
     errors |-> TransportErrors,
     upload_bodies |-> {PyDict(EmptyDict),
                        PyDict([content_uri |-> "mxc://example.org/abc123"]),
                        PyDict([content_uri |-> "mxc://example.org/def456"]),
                        PyDict([errcode |-> "M_UNKNOWN"]),
                        PyList(<<>>), None, PyStr("OK"), PyInt(5)},
     media |-> {"", "\\x89PNG"},
     preview_bodies |-> {EmptyDict,
                         DictSet(EmptyDict, "og:title", PyStr("Example")),
                         DictSet(EmptyDict, "og:title", PyInt(5))},
     config_bodies |-> {EmptyDict,
                        DictSet(EmptyDict, "m.upload.size", PyInt(50000000)),
                        DictSet(EmptyDict, "m.upload.size", PyStr("big"))}]

\* Arguments and transport answers of each of several concurrent callers.
Narrow ==
    [datas |-> {"hello"},
     mime_types |-> {PyStr("image/png")},
     urls |-> {"mxc://example.org/abc123"},
     widths |-> {PyInt(64)},
     heights |-> {None},
     resize_methods |-> {None},
     allow_remotes |-> {Omitted, PyBool(FALSE)},
     preview_urls |-> {"https://example.org/"},
     timestamps |-> {None, PyInt(0)},
     errors |-> {"MatrixRequestError", "CancelledError"},
     upload_bodies |-> {PyDict(EmptyDict),
                        PyDict([content_uri |-> "mxc://example.org/abc123"]),
                        PyList(<<>>)},
     media |-> {"\\x89PNG"},
     preview_bodies |-> {DictSet(EmptyDict, "og:title", PyStr("Example")),
                         DictSet(EmptyDict, "og:title", PyInt(5))},
     config_bodies |-> {EmptyDict,
                        DictSet(EmptyDict, "m.upload.size", PyStr("big"))}]

Answers(D, bodies) == {Ok(b) : b \in bodies} \cup {Err(e) : e \in D.errors}

\* The module is imported (with or without python-magic installed) and the
\* client is constructed; no call has been made.
InitTasks(T) ==
    /\ magic \in BOOLEAN
    /\ calls = [t \in T |-> Idle]
    /\ openStreams = 0

\* One calling task.
SeqTasks == {1}
Init == InitTasks(SeqTasks)
Next ==
    \/ \E t \in SeqTasks, data \in Wide.datas, mime_type \in Wide.mime_types :
          upload_media_call(t, data, mime_type)
    \/ \E t \in SeqTasks, resp \in Answers(Wide, Wide.upload_bodies) : upload_media_resume(t, resp)
    \/ \E t \in SeqTasks, url \in Wide.urls : download_media_call(t, url)
    \/ \E t \in SeqTasks, got \in Answers(Wide, {"stream"}) : download_media_enter(t, got)
    \/ \E t \in SeqTasks, read \in Answers(Wide, Wide.media) : download_media_read(t, read)
    \/ \E t \in SeqTasks, url \in Wide.urls, width \in Wide.widths, height \in Wide.heights,
          resize_method \in Wide.resize_methods, allow_remote \in Wide.allow_remotes :
          download_thumbnail_call(t, url, width, height, resize_method, allow_remote)
    \/ \E t \in SeqTasks, got \in Answers(Wide, {"stream"}) : download_thumbnail_enter(t, got)
    \/ \E t \in SeqTasks, read \in Answers(Wide, Wide.media) : download_thumbnail_read(t, read)
    \/ \E t \in SeqTasks, url \in Wide.preview_urls, timestamp \in Wide.timestamps :
          get_url_preview_call(t, url, timestamp)
    \/ \E t \in SeqTasks, content \in Answers(Wide, Wide.preview_bodies) : get_url_preview_resume(t, content)
    \/ \E t \in SeqTasks : get_media_repo_config_call(t)
    \/ \E t \in SeqTasks, content \in Answers(Wide, Wide.config_bodies) :
          get_media_repo_config_resume(t, content)
Spec == Init /\ [][Next]_vars

\* MaxTasks calling tasks on the same client.
ConcTasks == 1..MaxTasks
InitConc == InitTasks(ConcTasks)
NextConc ==
    \/ \E t \in ConcTasks, data \in Narrow.datas, mime_type \in Narrow.mime_types :
          upload_media_call(t, data, mime_type)
    \/ \E t \in ConcTasks, resp \in Answers(Narrow, Narrow.upload_bodies) : upload_media_resume(t, resp)
    \/ \E t \in ConcTasks, url \in Narrow.urls : download_media_call(t, url)
    \/ \E t \in ConcTasks, got \in Answers(Narrow, {"stream"}) : download_media_enter(t, got)
    \/ \E t \in ConcTasks, read \in Answers(Narrow, Narrow.media) : download_media_read(t, read)
    \/ \E t \in ConcTasks, url \in Narrow.urls, width \in Narrow.widths, height \in Narrow.heights,
          resize_method \in Narrow.resize_methods, allow_remote \in Narrow.allow_remotes :
          download_thumbnail_call(t, url, width, height, resize_method, allow_remote)
    \/ \E t \in ConcTasks, got \in Answers(Narrow, {"stream"}) : download_thumbnail_enter(t, got)
    \/ \E t \in ConcTasks, read \in Answers(Narrow, Narrow.media) : download_thumbnail_read(t, read)
    \/ \E t \in ConcTasks, url \in Narrow.preview_urls, timestamp \in Narrow.timestamps :
          get_url_preview_call(t, url, timestamp)
    \/ \E t \in ConcTasks, content \in Answers(Narrow, Narrow.preview_bodies) : get_url_preview_resume(t, content)
    \/ \E t \in ConcTasks : get_media_repo_config_call(t)
    \/ \E t \in ConcTasks, content \in Answers(Narrow, Narrow.config_bodies) :
          get_media_repo_config_resume(t, content)
SpecConc == InitConc /\ [][NextConc]_vars

-----------------------------------------------------------------------------
(* Properties.                                                              *)

Supplied(a) == a # Omitted /\ a # None
Finished(c) == c.pc = "done"
Headers(c) == c.request.headers["Content-Type"]
ThumbnailKeys == {"width", "height", "resize_method", "allow_remote"}

\* C1 as stated: the keys of a download_thumbnail query are exactly the
\* parameters the caller supplied, where a parameter left out of the call or
\* passed as None is not supplied.
C1_QueryKeysAreSuppliedParams ==
    \A t \in DOMAIN calls :
        calls[t].op = "download_thumbnail" =>
            DOMAIN calls[t].request.params =
                {k \in ThumbnailKeys : Supplied(calls[t].args[k])}

\* C1, amended: the keys of a download_thumbnail query are exactly the
\* parameters passed with a value other than None, plus allow_remote when it
\* is left out of the call (it is then sent with its default, true); every
\* key carries the value passed.  download_thumbnail(id, width=64, height=64,
\* resize_method=None, allow_remote=None) sends exactly {width: 64, height: 64}.
C1_QueryKeysAreBoundParams ==
    \A t \in DOMAIN calls :
        calls[t].op = "download_thumbnail" =>
            LET a == calls[t].args
                q == calls[t].request.params
            IN  /\ DOMAIN q = {k \in ThumbnailKeys :
                                  \/ Supplied(a[k])
                                  \/ k = "allow_remote" /\ a[k] = Omitted}
                /\ \A k \in DOMAIN q :
                      q[k] = IF a[k] = Omitted THEN PyBool(TRUE) ELSE a[k]
                /\ (/\ a.width = PyInt(64) /\ a.height = PyInt(64)
                    /\ a.resize_method = None /\ a.allow_remote = None)
                   => q = [width |-> PyInt(64), height |-> PyInt(64)]

\* The scenario of C1 has been called and its request is out.
C1_Witness ==
    \E t \in DOMAIN calls :
        /\ calls[t].op = "download_thumbnail"
        /\ calls[t].args.width = PyInt(64) /\ calls[t].args.height = PyInt(64)
        /\ calls[t].args.resize_method = None /\ calls[t].args.allow_remote = None
        /\ DOMAIN calls[t].request.params = {"width", "height"}

\* C2: an upload_media call whose request succeeded returns the response's
\* content_uri when the response body contains one, and otherwise (the body
\* lacks content_uri) raises MatrixResponseError, returns nothing and has
\* sent no further request.
C2_UploadResultFollowsContentUri ==
    \A t \in DOMAIN calls :
        (/\ calls[t].op = "upload_media" /\ Finished(calls[t])
         /\ calls[t].response.kind = "ok") =>
            LET body == calls[t].response.body
                contains == body.tag = "dict" /\ "content_uri" \in DOMAIN body.v
            IN  IF contains
                THEN calls[t].result = Return(body.v["content_uri"])
                ELSE /\ calls[t].result = Raise("MatrixResponseError")
                     /\ calls[t].nreq = 1

\* C3: a get_url_preview query always has url, with the caller's URL; it has
\* ts, with the caller's timestamp, exactly when a timestamp was supplied
\* (0 included); it has no other key.
C3_PreviewQueryKeys ==
    \A t \in DOMAIN calls :
        calls[t].op = "get_url_preview" =>
            LET a == calls[t].args
                q == calls[t].request.query_params
            IN  /\ "url" \in DOMAIN q /\ q["url"] = a.url
                /\ DOMAIN q \subseteq {"url", "ts"}
                /\ "ts" \in DOMAIN q <=> Supplied(a.timestamp)
                /\ "ts" \in DOMAIN q => q["ts"] = a.timestamp

\* A preview was requested with the timestamp 0.
C3_Witness ==
    \E t \in DOMAIN calls :
        /\ calls[t].op = "get_url_preview"
        /\ calls[t].args.timestamp = PyInt(0)
        /\ DOMAIN calls[t].request.query_params = {"url", "ts"}

\* C4: when the request of get_url_preview or get_media_repo_config succeeds
\* and the body fails deserialization, the call raises MatrixResponseError:
\* it returns no value and the SerializerError does not reach the caller.
C4_BadBodyRaisesResponseError ==
    \A t \in DOMAIN calls :
        (Finished(calls[t]) /\ calls[t].response.kind = "ok") =>
            /\ (/\ calls[t].op = "get_url_preview"
                /\ ~MXOpenGraph_deserialize(calls[t].response.body).ok)
               => calls[t].result = Raise("MatrixResponseError")
            /\ (/\ calls[t].op = "get_media_repo_config"
                /\ ~MediaRepoConfig_deserialize(calls[t].response.body).ok)
               => calls[t].result = Raise("MatrixResponseError")

\* A preview was answered with a body of the wrong shape and has failed.
C4_Witness ==
    \E t \in DOMAIN calls :
        /\ calls[t].op = "get_url_preview" /\ Finished(calls[t])
        /\ calls[t].response = Ok(DictSet(EmptyDict, "og:title", PyInt(5)))
        /\ calls[t].result.kind = "raise"

\* C5: in each of the five operations a failed transport call ends the call
\* with that same error after a single request, and MatrixResponseError is
\* raised only after a transport call that succeeded.
C5_TransportErrorsPropagate ==
    \A t \in DOMAIN calls :
        Finished(calls[t]) =>
            /\ calls[t].response.kind = "error" =>
                  /\ calls[t].result = Raise(calls[t].response.exc)
                  /\ calls[t].nreq = 1
            /\ calls[t].result = Raise("MatrixResponseError") =>
                  calls[t].response.kind = "ok"

\* The request of a preview failed with an error status.
C5_Witness ==
    \E t \in DOMAIN calls :
        /\ calls[t].op = "get_url_preview" /\ Finished(calls[t])
        /\ calls[t].response = Err("MatrixRequestError")
        /\ calls[t].result.kind = "raise"

\* C6: a download_media or download_thumbnail call that has returned or
\* failed holds no open stream; a stream is open only while its call awaits
\* the body; the session's open streams are those of the calls reading, so
\* none is open when every call has finished.
C6_StreamsReleased ==
    /\ \A t \in DOMAIN calls :
          /\ Finished(calls[t]) => calls[t].stream # "open"
          /\ calls[t].stream = "open" =>
                /\ calls[t].pc = "await_read"
                /\ calls[t].op \in {"download_media", "download_thumbnail"}
    /\ openStreams = Cardinality({t \in DOMAIN calls : calls[t].stream = "open"})
    /\ (\A t \in DOMAIN calls : calls[t].pc \in {"idle", "done"}) => openStreams = 0

\* Two downloads that ran at the same time have ended, one cancelled while it
\* read the body and one with the body, and both streams are released.
C6_Witness ==
    \E s, t \in DOMAIN calls :
        /\ calls[s].op = "download_media" /\ Finished(calls[s])
        /\ calls[s].stream = "released"
        /\ calls[s].result = Raise("CancelledError")
        /\ calls[t].op = "download_thumbnail" /\ Finished(calls[t])
        /\ calls[t].stream = "released"
        /\ calls[t].result.kind = "return"
        /\ openStreams = 0

\* C7: get_media_repo_config answered with {} returns a config with every
\* field absent; whenever the body deserializes, the call returns the value
\* the deserializer built.
C7_ConfigReturnsDeserialized ==
    \A t \in DOMAIN calls :
        (/\ calls[t].op = "get_media_repo_config" /\ Finished(calls[t])
         /\ calls[t].response.kind = "ok") =>
            LET body == calls[t].response.body
                d == MediaRepoConfig_deserialize(body)
            IN  /\ body = EmptyDict =>
                      calls[t].result = Return([upload_size |-> None])
                /\ d.ok => calls[t].result = Return(d.value)

\* The config request was answered with {} and the call has returned.
C7_Witness ==
    \E t \in DOMAIN calls :
        /\ calls[t].op = "get_media_repo_config" /\ Finished(calls[t])
        /\ calls[t].response = Ok(EmptyDict)
        /\ calls[t].result.kind = "return"

\* C8 as stated: allow_remote=False is sent as allow_remote=false, and a call
\* that does not specify allow_remote (left out, or None) sends no
\* allow_remote key.
C8_UnspecifiedFlagHasNoKey ==
    \A t \in DOMAIN calls :
        calls[t].op = "download_thumbnail" =>
            LET a == calls[t].args.allow_remote
                q == calls[t].request.params
            IN  /\ a = PyBool(FALSE) =>
                      "allow_remote" \in DOMAIN q /\ q["allow_remote"] = PyBool(FALSE)
                /\ ~Supplied(a) => "allow_remote" \notin DOMAIN q

\* C8, amended: allow_remote=False is sent as allow_remote=false; a call that
\* passes allow_remote=None sends no allow_remote key and a call that leaves
\* allow_remote out sends allow_remote=true, so neither sends what
\* allow_remote=False sends.
C8_FalseFlagIsSentAndDistinct ==
    \A t \in DOMAIN calls :
        calls[t].op = "download_thumbnail" =>
            LET a == calls[t].args.allow_remote
                q == calls[t].request.params
            IN  /\ a = PyBool(FALSE) =>
                      "allow_remote" \in DOMAIN q /\ q["allow_remote"] = PyBool(FALSE)
                /\ a = None => "allow_remote" \notin DOMAIN q
                /\ a = Omitted =>
                      "allow_remote" \in DOMAIN q /\ q["allow_remote"] = PyBool(TRUE)

\* A thumbnail was requested with allow_remote=False.
C8_Witness ==
    \E t \in DOMAIN calls :
        /\ calls[t].op = "download_thumbnail"
        /\ calls[t].args.allow_remote = PyBool(FALSE)
        /\ "allow_remote" \in DOMAIN calls[t].request.params

\* C9 as stated: a declared content type, the empty string included, is the
\* Content-Type sent; with none declared the sniffer's answer is sent if a
\* sniffer is available, and otherwise the request goes out with the payload
\* and no content type.
C9_DeclaredTypeIsSent ==
    \A t \in DOMAIN calls :
        calls[t].op = "upload_media" =>
            LET a == calls[t].args
                r == calls[t].request
            IN  /\ r.content = a.data
                /\ a.mime_type.tag = "str" => Headers(calls[t]) = a.mime_type
                /\ (~Supplied(a.mime_type) /\ magic) =>
                      Headers(calls[t]) = PyStr(magic_from_buffer(a.data))
                /\ (~Supplied(a.mime_type) /\ ~magic) => Headers(calls[t]) = None

\* C9, amended: a declared non-empty content type is the Content-Type sent;
\* the empty string is sent as declared only if no sniffer is available and is
\* replaced by the sniffer's answer otherwise; with none declared the
\* sniffer's answer is sent if a sniffer is available, and otherwise the
\* request goes out with the payload and no content type.
C9_NonEmptyDeclaredTypeIsSent ==
    \A t \in DOMAIN calls :
        calls[t].op = "upload_media" =>
            LET a == calls[t].args
                r == calls[t].request
                empty == ~Supplied(a.mime_type) \/ a.mime_type = PyStr("")
            IN  /\ r.content = a.data
                /\ ~empty => Headers(calls[t]) = a.mime_type
                /\ (empty /\ magic) =>
                      Headers(calls[t]) = PyStr(magic_from_buffer(a.data))
                /\ (empty /\ ~magic) =>
                      Headers(calls[t]) = Arg(a.mime_type, None)

\* With a sniffer available, an upload declared as "image/png" went out with
\* a payload the sniffer takes for text/plain.
C9_Witness ==
    \E t \in DOMAIN calls :
        /\ magic
        /\ calls[t].op = "upload_media"
        /\ calls[t].args = [data |-> "hello", mime_type |-> PyStr("image/png")]
        /\ calls[t].request.content = "hello"
        /\ Headers(calls[t]) = PyStr("image/png")

\* C10: two calls of the same operation with the same arguments send the same
\* request, whatever else is in flight, and end the same way when the
\* transport answers them the same way.
C10_CallsIndependent ==
    \A s, t \in DOMAIN calls :
        (/\ calls[s].op = calls[t].op /\ calls[s].op # "none"
         /\ calls[s].args = calls[t].args) =>
            /\ calls[s].request = calls[t].request
            /\ (/\ Finished(calls[s]) /\ Finished(calls[t])
                /\ calls[s].response = calls[t].response)
               => calls[s].result = calls[t].result

\* Two tasks made the same preview call at the same time; the transport
\* failed one and answered the other, and each ended on its own answer.
C10_Witness ==
    \E s, t \in DOMAIN calls :
        /\ s # t
        /\ calls[s].op = "get_url_preview" /\ calls[t].op = "get_url_preview"
        /\ calls[s].args = calls[t].args
        /\ Finished(calls[s]) /\ Finished(calls[t])
        /\ calls[s].result.kind = "raise" /\ calls[t].result.kind = "return"

====
